---- MODULE Spec2Model ----
(***************************************************************************)
(* httpfind: search a subnet for HTTP servers whose page matches a regular *)
(* expression.  The model follows src/httpfind/httpfind.py: url_generator, *)
(* fetch_page (one coroutine per URL), asynchronous (the as_completed      *)
(* collector) and survey.                                                  *)
(*                                                                         *)
(* Text (URLs, host names, page bodies, status strings) is a sequence of   *)
(* one-character strings, so that formatting an address, splitting a URL   *)
(* and parsing the host name back are computed, not assumed.               *)
(* An IPv4 address is its four octets <<a, b, c, d>>.                      *)
(***************************************************************************)
EXTENDS Integers, Sequences, FiniteSets, TLC

VARIABLES
    network,            \* survey's argument: the network specification
    path,               \* survey's argument: the path of the URL (text)
    pattern,            \* survey's argument: the regular expression (name)
    pc,                 \* where survey / asynchronous stands
    exc,                \* the exception survey ended with, "" when none
    urls,               \* the generator object url_generator returned
    built,              \* the URLs urlunsplit has built so far, in order
    re_filter,          \* the compiled pattern handed to asynchronous
    session,            \* the ClientSession: "none", "open", "closed"
    conns,              \* connections the TCPConnector has handed out
    futures,            \* the fetch_page tasks of the scan, in URL order
    completed,          \* as_completed's queue of finished tasks
    consumed,           \* how many futures the collector has awaited
    http_devices,       \* asynchronous' dict url -> body, as a set of pairs
    qualified_devices,  \* asynchronous' list of matching URLs
    result,             \* what survey returned, None before
    module,             \* whose survey is called: "httpfind" or "httpscan"
    loop,               \* the thread's event loop: "open" or "closed"
    history,            \* how the earlier calls of survey ended, in order
    orphans             \* unfinished tasks earlier calls left on the loop

vars == <<network, path, pattern, pc, exc, urls, built, re_filter, session,
          conns, futures, completed, consumed, http_devices,
          qualified_devices, result, module, loop, history, orphans>>

None == "None"

(***************************************************************************)
(* Text helpers.                                                           *)
(***************************************************************************)
Digit == <<"0", "1", "2", "3", "4", "5", "6", "7", "8", "9">>

IsDigit(c) == \E d \in 1..10 : Digit[d] = c

DigitValue(c) == (CHOOSE d \in 1..10 : Digit[d] = c) - 1

RECURSIVE str_int(_)
\* str(n) of a non-negative int: its decimal digits
str_int(n) ==
    IF n < 10 THEN <<Digit[n + 1]>>
    ELSE str_int(n \div 10) \o <<Digit[(n % 10) + 1]>>

RECURSIVE int_str(_)
\* int(text) of a string of decimal digits
int_str(t) ==
    IF t = <<>> THEN 0
    ELSE 10 * int_str(SubSeq(t, 1, Len(t) - 1)) + DigitValue(t[Len(t)])

\* s[i:] (1-based) and s[:i]
From(s, i) == SubSeq(s, i, Len(s))
Upto(s, i) == SubSeq(s, 1, i)

\* p in s, for strings
IsSubstring(p, s) ==
    \E k \in 0..(Len(s) - Len(p)) : SubSeq(s, k + 1, k + Len(p)) = p

\* the first index >= i of a character of cs in s, Len(s) + 1 when none
FindAny(s, cs, i) ==
    IF \E k \in i..Len(s) : s[k] \in cs
    THEN CHOOSE k \in i..Len(s) :
            s[k] \in cs /\ \A j \in i..(k - 1) : s[j] \notin cs
    ELSE Len(s) + 1

\* the code points that decide the order of two strings of the model
Ord(c) ==
    CASE c = "." -> 46
      [] c = "/" -> 47
      [] IsDigit(c) -> 48 + DigitValue(c)
      [] c = ":" -> 58
      [] OTHER -> 104

RECURSIVE StrLess(_, _)
\* s < t for Python strings: the first differing character decides
StrLess(s, t) ==
    IF t = <<>> THEN FALSE
    ELSE IF s = <<>> THEN TRUE
    ELSE IF s[1] # t[1] THEN Ord(s[1]) < Ord(t[1])
    ELSE StrLess(Tail(s), Tail(t))

(***************************************************************************)
(* ipaddress: networks and addresses.                                      *)
(***************************************************************************)
RECURSIVE Pow2(_)
Pow2(n) == IF n = 0 THEN 1 ELSE 2 * Pow2(n - 1)

\* the 32-bit value of an address in two 16-bit halves
Hi(ip) == ip[1] * 256 + ip[2]
Lo(ip) == ip[3] * 256 + ip[4]

\* int(a) < int(b), the order of ipaddress.IPv4Address
IpLess(a, b) == Hi(a) < Hi(b) \/ (Hi(a) = Hi(b) /\ Lo(a) < Lo(b))

\* the address k above ip, inside one /16
AddrPlus(ip, k) ==
    <<ip[1], ip[2], (Lo(ip) + k) \div 256, (Lo(ip) + k) % 256>>

\* str(ip): dotted quad
str_ip(ip) ==
    str_int(ip[1]) \o <<".">> \o str_int(ip[2]) \o <<".">> \o
    str_int(ip[3]) \o <<".">> \o str_int(ip[4])

\* the dot-separated fields of a text
RECURSIVE SplitDots(_)
SplitDots(t) ==
    LET k == FindAny(t, {"."}, 1)
    IN  IF k > Len(t) THEN <<t>>
        ELSE <<Upto(t, k - 1)>> \o SplitDots(From(t, k + 1))

\* ipaddress.ip_address(text): the octets of a dotted quad, None otherwise
ip_address(t) ==
    LET f == SplitDots(t)
    IN  IF /\ Len(f) = 4
           /\ \A i \in 1..4 :
                /\ f[i] # <<>>
                /\ Len(f[i]) <= 3
                /\ \A j \in 1..Len(f[i]) : IsDigit(f[i][j])
                /\ int_str(f[i]) <= 255
        THEN [i \in 1..4 |-> int_str(f[i])]
        ELSE None

\* A network specification as the caller writes it: an address with a
\* prefix length ("10.0.0.8/30"), a bare address ("10.0.0.10", NoPrefix),
\* or text that is no address at all.  NoPrefix marks the bare address.
NoPrefix == -1
Garbage == [addr |-> <<>>, prefixlen |-> NoPrefix]

NetSpec(a, b, c, d, p) == [addr |-> <<a, b, c, d>>, prefixlen |-> p]

\* the number of host bits that must be zero
HostBitsClear(ip, bits) ==
    IF bits <= 16 THEN Lo(ip) % Pow2(bits) = 0
    ELSE Lo(ip) = 0 /\ Hi(ip) % Pow2(bits - 16) = 0

\* ipaddress.ip_network(spec), strict: ValueError for text that is no
\* network, for a prefix outside 0..32 and for an address with host bits set
ip_network(spec) ==
    LET p == IF spec.prefixlen = NoPrefix THEN 32 ELSE spec.prefixlen
    IN  IF \/ spec.addr = <<>>
           \/ p < 0
           \/ p > 32
        THEN [raised |-> "ValueError"]
        ELSE IF ~HostBitsClear(spec.addr, 32 - p)
        THEN [raised |-> "ValueError"]
        ELSE [raised |-> "", network_address |-> spec.addr, prefixlen |-> p,
              num_addresses |-> Pow2(32 - p)]

\* hosts as the iteration of the network itself: every address, the
\* network and the broadcast address included
hosts_with_network_and_broadcast(net) ==
    [k \in 1..net.num_addresses |-> AddrPlus(net.network_address, k - 1)]

\* IPv4Network.hosts(): every address of a /31, the one address of a /32,
\* otherwise all but the network and the broadcast address, ascending
hosts(net) ==
    IF net.prefixlen >= 31
    THEN [k \in 1..net.num_addresses |-> AddrPlus(net.network_address, k - 1)]
    ELSE [k \in 1..(net.num_addresses - 2) |-> AddrPlus(net.network_address, k)]

(***************************************************************************)
(* urllib.parse: urlunsplit(('http', netloc, path, '', '')) and            *)
(* urlsplit(url).hostname.                                                 *)
(***************************************************************************)
urlunsplit(netloc, p) ==
    LET url == IF p # <<>> /\ p[1] # "/" THEN <<"/">> \o p ELSE p
    IN  <<"h", "t", "t", "p", ":">> \o <<"/", "/">> \o netloc \o url

\* urlsplit(url).hostname: the text between "//" and the next "/", "?" or
\* "#", without a port; None when the URL has no "//"
hostname(url) ==
    LET c == FindAny(url, {":"}, 1)
    IN  IF c + 2 > Len(url) \/ SubSeq(url, c + 1, c + 2) # <<"/", "/">>
        THEN None
        ELSE LET rest   == From(url, c + 3)
                 netloc == Upto(rest, FindAny(rest, {"/", "?", "#"}, 1) - 1)
                 host   == Upto(netloc, FindAny(netloc, {":"}, 1) - 1)
             IN  IF host = <<>> THEN None ELSE host

\* urlsplit(url).netloc: the text between "//" and the next "/", "?" or
\* "#", empty when the URL has no "//"
netloc(url) ==
    LET c == FindAny(url, {":"}, 1)
    IN  IF c + 2 > Len(url) \/ SubSeq(url, c + 1, c + 2) # <<"/", "/">>
        THEN <<>>
        ELSE LET rest == From(url, c + 3)
             IN  Upto(rest, FindAny(rest, {"/", "?", "#"}, 1) - 1)

(***************************************************************************)
(* re: the patterns of the model and what they match.  A compiled pattern  *)
(* is the finite set of texts it matches; search looks for one of them     *)
(* anywhere in the subject.                                                *)
(***************************************************************************)
Philips == <<"P", "h", "i", "l", "i", "p", "s">>
philips == <<"p", "h", "i", "l", "i", "p", "s">>
PhilipsHueBridge ==
    Philips \o <<" ", "h", "u", "e", " ", "b", "r", "i", "d", "g", "e">>

\* the patterns a caller passes: the default '', '(P|p)hilips', and '(',
\* which does not compile
Patterns == {"", "(P|p)hilips", "("}

\* re.compile(pattern)
re_compile(p) ==
    CASE p = "" -> [raised |-> "", matches |-> {<<>>}]
      [] p = "(P|p)hilips" -> [raised |-> "", matches |-> {Philips, philips}]
      [] OTHER -> [raised |-> "re.error", matches |-> {}]

\* search that takes an empty subject for no match
search_skipping_empty(re, text) ==
    text # <<>> /\ \E w \in re.matches : IsSubstring(w, text)

\* re_filter.search(text) is not None
search(re, text) == \E w \in re.matches : IsSubstring(w, text)

(***************************************************************************)
(* url_generator (httpfind.py 105-124).                                    *)
(***************************************************************************)
\* the address ceiling of url_generator
MaxAddresses == 256

\* GeneratorExpression as a tuple built on the spot: every URL exists when
\* url_generator returns
TupleExpression(network_hosts, p) ==
    [pending |-> <<>>, path |-> p,
     built |-> [k \in 1..Len(network_hosts) |->
                  urlunsplit(str_ip(network_hosts[k]), p)]]

\* the generator expression of line 124: nothing is built until it is
\* iterated
GeneratorExpression(network_hosts, p) ==
    [pending |-> network_hosts, path |-> p, built |-> <<>>]

\* url_generator(network, path): the exception it raises, or the generator
url_generator(net, p) ==
    LET network_object == ip_network(net)
    IN  IF network_object.raised # ""
        THEN [raised |-> network_object.raised]
        ELSE IF network_object.num_addresses > MaxAddresses
        THEN [raised |-> "NotImplementedError"]
        ELSE IF network_object.num_addresses > 1
        THEN [raised |-> "",
              gen |-> GeneratorExpression(hosts(network_object), p)]
        ELSE [raised |-> "",
              gen |-> GeneratorExpression(
                          <<network_object.network_address>>, p)]

\* iterating the generator to its end: the URLs of the addresses not yet
\* yielded, in order
Drain(gen) ==
    [k \in 1..Len(gen.pending) |-> urlunsplit(str_ip(gen.pending[k]), gen.path)]

Exhausted(gen) == [gen EXCEPT !.pending = <<>>]

(***************************************************************************)
(* fetch_page (httpfind.py 17-65): what aiohttp can do to one request, the *)
(* exception class it raises for it, and the except clauses of the probe.  *)
(***************************************************************************)
\* what can happen to session.get(host, allow_redirects=False) under
\* conn_timeout=5, raise_for_status=True
GetEvents ==
    {"response", "http_error", "refused", "unreachable", "connect_timeout",
     "disconnected", "invalid_url", "os_error", "total_timeout"}

\* what can happen to response.text()
TextEvents == {"body", "payload_error", "total_timeout"}

\* the bodies a host may answer with
Bodies == {PhilipsHueBridge, <<>>, <<"o", "k">>}

\* the exception class aiohttp raises for an event
Raises(event) ==
    CASE event = "http_error"      -> "ClientResponseError"
      [] event = "refused"         -> "ClientConnectorError"
      [] event = "unreachable"     -> "ClientConnectorError"
      [] event = "connect_timeout" -> "ServerTimeoutError"
      [] event = "disconnected"    -> "ServerDisconnectedError"
      [] event = "invalid_url"     -> "InvalidURL"
      [] event = "os_error"        -> "ClientOSError"
      [] event = "total_timeout"   -> "TimeoutError"
      [] event = "payload_error"   -> "ClientPayloadError"
      [] OTHER                     -> ""

\* the class and its base classes, as except matches them
Mro(cls) ==
    CASE cls = "ClientResponseError" -> {"ClientResponseError", "ClientError"}
      [] cls = "ClientConnectorError" ->
            {"ClientConnectorError", "ClientOSError", "ClientConnectionError",
             "ClientError", "OSError"}
      [] cls = "ClientOSError" ->
            {"ClientOSError", "ClientConnectionError", "ClientError", "OSError"}
      [] cls = "ServerTimeoutError" ->
            {"ServerTimeoutError", "ServerConnectionError",
             "ClientConnectionError", "ClientError", "TimeoutError"}
      [] cls = "ServerDisconnectedError" ->
            {"ServerDisconnectedError", "ServerConnectionError",
             "ClientConnectionError", "ClientError"}
      [] cls = "InvalidURL" -> {"InvalidURL", "ClientError", "ValueError"}
      [] cls = "ClientPayloadError" -> {"ClientPayloadError", "ClientError"}
      [] OTHER -> {cls}

\* the except clauses around session.get, in order (lines 35-50): the
\* status of the results tuple, None when no clause catches the exception
GetHandler(cls) ==
    IF "ClientResponseError" \in Mro(cls) THEN "no page"
    ELSE IF "ClientConnectorError" \in Mro(cls) THEN "no http"
    ELSE IF "ServerConnectionError" \in Mro(cls) THEN "no dev"
    ELSE IF "InvalidURL" \in Mro(cls) THEN "no URL"
    ELSE None

\* the except clause around response.text() (lines 57-59)
TextHandler(cls) ==
    IF "ClientPayloadError" \in Mro(cls) THEN "no read" ELSE None

\* the six status strings of a results tuple
Statuses == {"found", "no page", "no http", "no dev", "no URL", "no read"}

\* a status string as text
Text(s) ==
    CASE s = "found"   -> <<"f", "o", "u", "n", "d">>
      [] s = "no page" -> <<"n", "o", " ", "p", "a", "g", "e">>
      [] s = "no http" -> <<"n", "o", " ", "h", "t", "t", "p">>
      [] s = "no dev"  -> <<"n", "o", " ", "d", "e", "v">>
      [] s = "no URL"  -> <<"n", "o", " ", "U", "R", "L">>
      [] s = "no read" -> <<"n", "o", " ", "r", "e", "a", "d">>

\* session.get with every redirect followed, as aiohttp does by default
allow_redirects_default == TRUE

\* line 34: session.get(host, allow_redirects=False)
allow_redirects == FALSE

\* what a server that answers the GET without an error status sends: a
\* page, or a 3xx redirect (raise_for_status raises from 400 on only)
Answers == {"page", "redirect"}

\* whether session.get follows the answer with a request of its own to
\* the redirect's target
Followed(answer) == answer = "redirect" /\ allow_redirects

\* response.close() after the body read (line 62, in the else branch of
\* the outer try, past the inner try statement) but only on the 'found'
\* path
close_only_when_found(status, closes) ==
    IF status = "found" THEN closes + 1 ELSE closes

\* line 62: response.close() runs after the inner try statement whichever
\* of its two tuples was made; the number of close calls so far
response_close(status, closes) == closes + 1

\* a fetch_page task: its URL, where the coroutine stands ("pending",
\* "sleep", "get", "text", "done", "raised"), its jitter in tenths of a
\* second, what aiohttp did, the tuple it returned, the exception that
\* left it, the HTTP requests sent for it, the response session.get
\* handed back ("" for none, "page" or "redirect") and the calls of
\* response.close()
Task(url) ==
    [url |-> url, pc |-> "pending", jitter |-> 0, event |-> "",
     results_tuple |-> None, raised |-> "",
     requests |-> 0, response |-> "", closes |-> 0]

(***************************************************************************)
(* asynchronous (httpfind.py 68-102) and survey (127-154).                 *)
(***************************************************************************)
\* TCPConnector(limit=1)
limit_one == 0 + 1

\* TCPConnector(limit=0): 0 switches the connector's limit off
limit == 0

\* whether the connector hands out one more connection when c are out
ConnectorAvailable(c) == IF limit = 0 THEN TRUE ELSE c < limit

\* the largest value of random.randint(0, 25) the model draws
JitterBound == 2

\* 'found' in response[1]
IsFound(response) == IsSubstring(Text("found"), Text(response[2]))

\* new_http_devices without the assignment of line 93: the dict stays as
\* it was
http_devices_not_recorded(response, devices) == devices

\* lines 92-93: http_devices[response[0]] = response[2]
new_http_devices(response, devices) ==
    IF IsFound(response)
    THEN {d \in devices : d[1] # response[1]} \cup {<<response[1], response[3]>>}
    ELSE devices

\* new_qualified_devices with the test for 'found' lost: every completed
\* probe is appended unless it found a page the filter rejects
qualified_without_found_check(response, re, devices) ==
    IF IsFound(response) => search(re, response[3])
    THEN Append(devices, response[1])
    ELSE devices

\* new_qualified_devices with the filter lost: every found page qualifies
qualified_without_filter(response, re, devices) ==
    IF IsFound(response) THEN Append(devices, response[1]) ELSE devices

\* lines 92-96: the URL is appended when the probe found a page and the
\* filter matches its body
new_qualified_devices(response, re, devices) ==
    IF IsFound(response)
    THEN IF search(re, response[3]) THEN Append(devices, response[1])
         ELSE devices
    ELSE devices

\* the sort key of line 154: ipaddress.ip_address(x.hostname)
key(x) == ip_address(hostname(x))

\* KeyLess with the URL strings themselves as keys (list.sort() without a
\* key, as in httpscan.py line 140)
KeyLessAsStrings(a, b) == StrLess(a, b)

\* key(a) < key(b)
KeyLess(a, b) == IpLess(key(a), key(b))

\* x put into the sorted sequence s behind every element that is not
\* greater (sorted is stable)
Insert(x, s) ==
    LET n == Cardinality({k \in 1..Len(s) : ~KeyLess(x, s[k])})
    IN  Upto(s, n) \o <<x>> \o From(s, n + 1)

RECURSIVE sorted(_)
\* sorted(s, key=...)
sorted(s) ==
    IF s = <<>> THEN <<>>
    ELSE Insert(s[Len(s)], sorted(Upto(s, Len(s) - 1)))

\* survey_result without the sort (httpscan.py line 118)
survey_result_unsorted(devices) == devices

\* what survey returns for the list asynchronous returned (line 154)
survey_result(devices) == sorted(devices)

Tasks == 1..Len(futures)

\* the loop runs the scan's tasks while run_until_complete(network_scan)
\* has not returned
LoopRuns == pc = "collect"

\* line 143-144, first argument: url_generator(network=network, path=path)
survey_url_generator ==
    /\ pc = "call"
    /\ LET g == url_generator(network, path)
       IN  IF g.raised # ""
           THEN /\ pc' = "raised"
                /\ exc' = g.raised
                /\ UNCHANGED <<urls, built>>
           ELSE /\ pc' = "compile"
                /\ urls' = g.gen
                /\ built' = g.gen.built
                /\ exc' = exc
    /\ UNCHANGED <<module, loop, history, orphans,
                   network, path, pattern, re_filter, session, conns, futures,
                   completed, consumed, http_devices, qualified_devices,
                   result>>

\* line 145, second argument: re.compile(pattern); then the coroutine
\* object is made and ensure_future (line 143) makes its task on the
\* thread's event loop, which raises RuntimeError on a closed loop
survey_re_compile ==
    /\ pc = "compile"
    /\ LET re == re_compile(pattern)
       IN  IF re.raised # ""
           THEN /\ pc' = "raised"
                /\ exc' = re.raised
                /\ re_filter' = re_filter
           ELSE IF loop = "closed"
           THEN /\ pc' = "raised"
                /\ exc' = "RuntimeError"
                /\ re_filter' = re_filter
           ELSE /\ pc' = "scan"
                /\ re_filter' = re
                /\ exc' = exc
    /\ UNCHANGED <<module, loop, history, orphans,
                   network, path, pattern, urls, built, session, conns,
                   futures, completed, consumed, http_devices,
                   qualified_devices, result>>

\* lines 82-90: the collections, the connector and the session are made,
\* the generator is iterated to its end (one fetch_page coroutine per URL)
\* and as_completed schedules every coroutine as a task
asynchronous_start ==
    /\ pc = "scan"
    /\ LET us == urls.built \o Drain(urls)
       IN  /\ built' = built \o Drain(urls)
           /\ futures' = [k \in 1..Len(us) |-> Task(us[k])]
    /\ urls' = Exhausted(urls)
    /\ http_devices' = {}
    /\ qualified_devices' = <<>>
    /\ session' = "open"
    /\ conns' = 0
    /\ completed' = <<>>
    /\ consumed' = 0
    /\ pc' = "collect"
    /\ UNCHANGED <<module, loop, history, orphans,
                   network, path, pattern, exc, re_filter, result>>

\* line 29: the task runs up to asyncio.sleep(random.randint(0, 25) * 0.1)
fetch_page_sleep(i) ==
    /\ LoopRuns
    /\ futures[i].pc = "pending"
    /\ \E j \in 0..JitterBound :
          futures' = [futures EXCEPT ![i].pc = "sleep", ![i].jitter = j]
    /\ UNCHANGED <<module, loop, history, orphans,
                   network, path, pattern, pc, exc, urls, built, re_filter,
                   session, conns, completed, consumed, http_devices,
                   qualified_devices, result>>

\* lines 30-34: the sleep is over (the shorter sleeps end first) and
\* session.get asks the connector for a connection
fetch_page_get(i) ==
    /\ LoopRuns
    /\ futures[i].pc = "sleep"
    /\ \A k \in Tasks :
          /\ futures[k].pc # "pending"
          /\ futures[k].pc = "sleep" => futures[k].jitter >= futures[i].jitter
    /\ ConnectorAvailable(conns)
    /\ conns' = conns + 1
    /\ futures' = [futures EXCEPT ![i].pc = "get",
                                  ![i].requests = futures[i].requests + 1]
    /\ UNCHANGED <<module, loop, history, orphans,
                   network, path, pattern, pc, exc, urls, built, re_filter,
                   session, completed, consumed, http_devices,
                   qualified_devices, result>>

\* lines 34-50: session.get raises; the first matching except clause makes
\* the results tuple and fetch_page returns it (line 65), and an exception
\* no clause matches leaves fetch_page
fetch_page_get_raises(i) ==
    /\ LoopRuns
    /\ futures[i].pc = "get"
    /\ \E ev \in GetEvents \ {"response"} :
          LET status == GetHandler(Raises(ev))
          IN  futures' =
                IF status # None
                THEN [futures EXCEPT
                        ![i].pc = "done", ![i].event = ev,
                        ![i].results_tuple = <<futures[i].url, status, Raises(ev)>>]
                ELSE [futures EXCEPT
                        ![i].pc = "raised", ![i].event = ev,
                        ![i].raised = Raises(ev)]
    /\ conns' = conns - 1
    /\ completed' = Append(completed, i)
    /\ UNCHANGED <<module, loop, history, orphans,
                   network, path, pattern, pc, exc, urls, built, re_filter,
                   session, consumed, http_devices, qualified_devices, result>>

\* lines 34, 54-56: the server answers; session.get returns that response
\* (a redirect too, since redirects are not followed) and the probe awaits
\* response.text()
fetch_page_response(i) ==
    /\ LoopRuns
    /\ futures[i].pc = "get"
    /\ \E answer \in Answers :
          futures' =
            [futures EXCEPT
               ![i].pc = "text", ![i].event = "response",
               ![i].requests =
                  IF Followed(answer) THEN futures[i].requests + 1
                  ELSE futures[i].requests,
               ![i].response = IF Followed(answer) THEN "page" ELSE answer]
    /\ UNCHANGED <<module, loop, history, orphans,
                   network, path, pattern, pc, exc, urls, built, re_filter,
                   session, conns, completed, consumed, http_devices,
                   qualified_devices, result>>

\* lines 56-65: response.text() returns the body, or raises
\* ClientPayloadError ('no read'); the response is closed and the tuple is
\* returned
fetch_page_text(i) ==
    /\ LoopRuns
    /\ futures[i].pc = "text"
    /\ \/ \E body \in Bodies :
            futures' = [futures EXCEPT
                          ![i].pc = "done", ![i].event = "body",
                          ![i].results_tuple = <<futures[i].url, "found", body>>,
                          ![i].closes =
                             response_close("found", futures[i].closes)]
       \/ \E ev \in {e \in TextEvents : TextHandler(Raises(e)) # None} :
            futures' = [futures EXCEPT
                          ![i].pc = "done", ![i].event = ev,
                          ![i].results_tuple =
                             <<futures[i].url, TextHandler(Raises(ev)), Raises(ev)>>,
                          ![i].closes =
                             response_close(TextHandler(Raises(ev)),
                                            futures[i].closes)]
    /\ conns' = conns - 1
    /\ completed' = Append(completed, i)
    /\ UNCHANGED <<module, loop, history, orphans,
                   network, path, pattern, pc, exc, urls, built, re_filter,
                   session, consumed, http_devices, qualified_devices, result>>

\* line 56: response.text() raises an exception the except clause of line
\* 57 does not name; it leaves fetch_page past response.close()
fetch_page_text_raises(i) ==
    /\ LoopRuns
    /\ futures[i].pc = "text"
    /\ \E ev \in {e \in TextEvents \ {"body"} : TextHandler(Raises(e)) = None} :
          futures' = [futures EXCEPT
                        ![i].pc = "raised", ![i].event = ev,
                        ![i].raised = Raises(ev)]
    /\ conns' = conns - 1
    /\ completed' = Append(completed, i)
    /\ UNCHANGED <<module, loop, history, orphans,
                   network, path, pattern, pc, exc, urls, built, re_filter,
                   session, consumed, http_devices, qualified_devices, result>>

\* what the list holds for an appended URL: httpfind appends the URL as
\* a _URLBase (line 96), httpscan appends urlsplit(response[0]).netloc
\* (httpscan.py line 73); the earlier entries are as they were
qualified_entries(appended) ==
    IF module = "httpscan" /\ Len(appended) > Len(qualified_devices)
    THEN Append(qualified_devices, netloc(appended[Len(appended)]))
    ELSE appended

\* lines 90-96: the collector awaits the next finished task and files its
\* results tuple
asynchronous_await ==
    /\ pc = "collect"
    /\ completed # <<>>
    /\ futures[Head(completed)].pc = "done"
    /\ LET response == futures[Head(completed)].results_tuple
       IN  /\ http_devices' = new_http_devices(response, http_devices)
           /\ qualified_devices' =
                 qualified_entries(
                    new_qualified_devices(response, re_filter,
                                          qualified_devices))
    /\ completed' = Tail(completed)
    /\ consumed' = consumed + 1
    /\ UNCHANGED <<module, loop, history, orphans,
                   network, path, pattern, pc, exc, urls, built, re_filter,
                   session, conns, futures, result>>

\* line 91: the awaited task ended with an exception: it leaves the loop
\* and the async with block (the session is closed), asynchronous and
\* run_until_complete (line 148), and survey
asynchronous_await_raises ==
    /\ pc = "collect"
    /\ completed # <<>>
    /\ futures[Head(completed)].pc = "raised"
    /\ exc' = futures[Head(completed)].raised
    /\ pc' = "raised"
    /\ session' = "closed"
    /\ completed' = Tail(completed)
    /\ consumed' = consumed + 1
    /\ UNCHANGED <<module, loop, history, orphans,
                   network, path, pattern, urls, built, re_filter, conns,
                   futures, http_devices, qualified_devices, result>>

\* lines 97-102: every future was awaited; the async with block closes the
\* session and asynchronous returns qualified_devices
asynchronous_return ==
    /\ pc = "collect"
    /\ consumed = Len(futures)
    /\ session' = "closed"
    /\ pc' = "sort"
    /\ UNCHANGED <<module, loop, history, orphans,
                   network, path, pattern, exc, urls, built, re_filter, conns,
                   futures, completed, consumed, http_devices,
                   qualified_devices, result>>

\* whether survey closes the event loop before it returns: httpscan.py
\* line 117 does, httpfind.py line 152 has the call commented out
closes_loop(m) == m = "httpscan"

\* lines 151-154: the zero-sleep, then the sorted list is returned;
\* httpscan.py lines 116-118: the loop is closed and the list is returned
\* as asynchronous made it
survey_return ==
    /\ pc = "sort"
    /\ result' = IF module = "httpscan" THEN qualified_devices
                 ELSE survey_result(qualified_devices)
    /\ loop' = IF closes_loop(module) THEN "closed" ELSE loop
    /\ pc' = "returned"
    /\ UNCHANGED <<module, history, orphans, network, path, pattern, exc,
                   urls, built, re_filter, session, conns, futures,
                   completed, consumed, http_devices, qualified_devices>>

(***************************************************************************)
(* The scan: survey called once with arguments from small sets.            *)
(***************************************************************************)
\* the networks scanned: two /30 (two hosts each), a /31, a bare address,
\* a /32, and the three that fail before the scan: host bits set, no
\* address at all, 512 addresses
ScanNetworks ==
    {NetSpec(192, 168, 0, 0, 30), NetSpec(10, 0, 0, 8, 30),
     NetSpec(10, 0, 0, 8, 31), NetSpec(10, 0, 0, 10, NoPrefix),
     NetSpec(10, 0, 0, 10, 32), NetSpec(10, 0, 0, 9, 30), Garbage,
     NetSpec(10, 0, 0, 0, 23)}

Paths == {<<>>, <<"x">>}

Start(networks) ==
    /\ network \in networks
    /\ path \in Paths
    /\ pattern \in Patterns
    /\ pc = "call"
    /\ exc = ""
    /\ urls = None
    /\ built = <<>>
    /\ re_filter = None
    /\ session = "none"
    /\ conns = 0
    /\ futures = <<>>
    /\ completed = <<>>
    /\ consumed = 0
    /\ http_devices = {}
    /\ qualified_devices = <<>>
    /\ result = None
    /\ loop = "open"
    /\ history = <<>>
    /\ orphans = 0

Init == Start(ScanNetworks) /\ module = "httpfind"

Next ==
    \/ survey_url_generator
    \/ survey_re_compile
    \/ asynchronous_start
    \/ \E i \in Tasks : fetch_page_sleep(i)
    \/ \E i \in Tasks : fetch_page_get(i)
    \/ \E i \in Tasks : fetch_page_get_raises(i)
    \/ \E i \in Tasks : fetch_page_response(i)
    \/ \E i \in Tasks : fetch_page_text(i)
    \/ \E i \in Tasks : fetch_page_text_raises(i)
    \/ asynchronous_await
    \/ asynchronous_await_raises
    \/ asynchronous_return
    \/ survey_return

Spec == Init /\ [][Next]_vars

(***************************************************************************)
(* url_generator alone: survey up to the point where the futures exist,    *)
(* over every prefix length from 32 - MaxHostBits to 33.                   *)
(***************************************************************************)
MaxHostBits == 9

GenBases ==
    {<<10, 0, 0, 0>>, <<10, 0, 0, 8>>, <<10, 0, 0, 9>>, <<10, 0, 2, 0>>,
     <<192, 168, 0, 0>>, <<192, 168, 1, 128>>}

GenNetworks ==
    {[addr |-> a, prefixlen |-> p] :
        a \in GenBases, p \in ((32 - MaxHostBits)..33) \cup {NoPrefix}}
    \cup {Garbage}

InitGen == Start(GenNetworks) /\ module = "httpfind"

NextGen ==
    \/ survey_url_generator
    \/ survey_re_compile
    \/ asynchronous_start

SpecGen == InitGen /\ [][NextGen]_vars

(***************************************************************************)
(* The sort of line 154 alone: survey at the point where asynchronous has  *)
(* returned, for a scan of 10.0.0.0/28 in which any up to MaxQualified of  *)
(* the hosts .1, .2, .9, .10, .11 qualified, appended in any order.        *)
(***************************************************************************)
MaxQualified == 3

SortNetwork == NetSpec(10, 0, 0, 0, 28)

SortPool == {1, 2, 9, 10, 11}

\* the sequences of at most n distinct elements of S
Arrangements(S, n) ==
    {q \in UNION {[1..m -> S] : m \in 0..n} :
        \A a, b \in DOMAIN q : a # b => q[a] # q[b]}

SortUrls == Drain(url_generator(SortNetwork, <<>>).gen)

InitSort ==
    /\ module = "httpfind"
    /\ loop = "open"
    /\ history = <<>>
    /\ orphans = 0
    /\ network = SortNetwork
    /\ path = <<>>
    /\ pattern = ""
    /\ pc = "sort"
    /\ exc = ""
    /\ urls = Exhausted(url_generator(SortNetwork, <<>>).gen)
    /\ built = SortUrls
    /\ re_filter = re_compile("")
    /\ session = "closed"
    /\ conns = 0
    /\ completed = <<>>
    /\ consumed = Len(SortUrls)
    /\ result = None
    /\ \E q \in Arrangements(SortPool, MaxQualified) :
          LET found == {q[k] : k \in DOMAIN q}
          IN  /\ qualified_devices = [k \in DOMAIN q |-> SortUrls[q[k]]]
              /\ http_devices = {<<SortUrls[h], <<>>>> : h \in found}
              /\ futures =
                    [h \in 1..Len(SortUrls) |->
                        IF h \in found
                        THEN [Task(SortUrls[h]) EXCEPT
                                !.pc = "done", !.event = "body",
                                !.results_tuple = <<SortUrls[h], "found", <<>>>>,
                                !.requests = 1, !.response = "page",
                                !.closes = 1]
                        ELSE [Task(SortUrls[h]) EXCEPT
                                !.pc = "done", !.event = "connect_timeout",
                                !.results_tuple =
                                   <<SortUrls[h], "no dev", "ServerTimeoutError">>,
                                !.requests = 1]]

NextSort == survey_return

SpecSort == InitSort /\ [][NextSort]_vars

(***************************************************************************)
(* survey called again and again in one process, httpfind's or httpscan's: *)
(* the locals of a call are gone when it ends, the thread's event loop and *)
(* the tasks still on it stay.                                            *)
(***************************************************************************)
\* calls of survey in one process
MaxCalls == 2

\* the two modules of the repository that define survey
Modules == {"httpfind", "httpscan"}

\* a network of two hosts, a single address and one that does not parse
RepeatNetworks ==
    {NetSpec(10, 0, 0, 8, 31), NetSpec(10, 0, 0, 10, NoPrefix), Garbage}

InitRepeat == Start(RepeatNetworks) /\ module \in Modules

\* how the call of survey that just ended did end: it returned, an
\* exception left it before its task was made (from url_generator, from
\* re.compile or from ensure_future), or an exception left the scan
Ended ==
    IF pc = "returned" THEN "returned"
    ELSE IF exc = "RuntimeError" THEN "no loop"
    ELSE IF session = "none" THEN "preflight"
    ELSE "aborted"

\* the fetch_page tasks of the call that have not run to their end
Unfinished ==
    Cardinality({i \in Tasks : futures[i].pc \notin {"done", "raised"}})

\* survey is called again after it returned or raised: new arguments, new
\* locals; the loop is the one get_event_loop gave the call before, with
\* the unfinished tasks of that call still on it
survey_again ==
    /\ pc \in {"returned", "raised"}
    /\ Len(history) < MaxCalls - 1
    /\ history' = Append(history, Ended)
    /\ orphans' = orphans + Unfinished
    /\ network' \in RepeatNetworks
    /\ path' \in Paths
    /\ pattern' \in Patterns
    /\ pc' = "call"
    /\ exc' = ""
    /\ urls' = None
    /\ built' = <<>>
    /\ re_filter' = None
    /\ session' = "none"
    /\ conns' = 0
    /\ futures' = <<>>
    /\ completed' = <<>>
    /\ consumed' = 0
    /\ http_devices' = {}
    /\ qualified_devices' = <<>>
    /\ result' = None
    /\ UNCHANGED <<module, loop>>

\* the running loop resumes a task an earlier call left behind; its
\* session is closed, the task ends and nobody awaits it
orphan_ends ==
    /\ LoopRuns
    /\ orphans > 0
    /\ orphans' = orphans - 1
    /\ UNCHANGED <<module, loop, history, network, path, pattern, pc, exc,
                   urls, built, re_filter, session, conns, futures,
                   completed, consumed, http_devices, qualified_devices,
                   result>>

NextRepeat ==
    \/ survey_url_generator
    \/ survey_re_compile
    \/ asynchronous_start
    \/ \E i \in Tasks : fetch_page_sleep(i)
    \/ \E i \in Tasks : fetch_page_get(i)
    \/ \E i \in Tasks : fetch_page_get_raises(i)
    \/ \E i \in Tasks : fetch_page_response(i)
    \/ \E i \in Tasks : fetch_page_text(i)
    \/ \E i \in Tasks : fetch_page_text_raises(i)
    \/ asynchronous_await
    \/ asynchronous_await_raises
    \/ asynchronous_return
    \/ survey_return
    \/ survey_again
    \/ orphan_ends

SpecRepeat == InitRepeat /\ [][NextRepeat]_vars

(***************************************************************************)
(* Properties.                                                             *)
(***************************************************************************)
\* the status of task i's results tuple, None while it has none
Status(i) ==
    IF futures[i].results_tuple = None THEN None
    ELSE futures[i].results_tuple[2]

\* whether u is in the sequence q
InSeq(u, q) == \E k \in 1..Len(q) : q[k] = u

\* C1: in every state of a scan, a host in the qualified list is a host
\* whose probe returned the outcome 'found'; a host whose probe ended 'no
\* page', 'no http', 'no dev', 'no URL' or 'no read' is never in it.
C1_QualifiedOnlyFound ==
    \A i \in Tasks :
        InSeq(futures[i].url, qualified_devices) => Status(i) = "found"

\* C1's case: both completions are consumed, one host qualified and the
\* other ended with a failure outcome
C1_Witness ==
    /\ consumed = 2
    /\ Len(qualified_devices) = 1
    /\ \E i \in Tasks : Status(i) \in Statuses \ {"found"}

\* the addresses url_generator expands the network to
NetworkHosts ==
    LET h == hosts(ip_network(network)) IN {h[k] : k \in 1..Len(h)}

\* the hosts of the network whose probe returned ('found', body) with a
\* body the pattern is found in
MatchingHosts ==
    {h \in NetworkHosts :
        \E i \in Tasks :
            /\ hostname(futures[i].url) = str_ip(h)
            /\ Status(i) = "found"
            /\ \E w \in re_compile(pattern).matches :
                  IsSubstring(w, futures[i].results_tuple[3])}

\* C2: when survey returns, its result holds every host of the expanded
\* network whose probe outcome was Found(body) with body matching the
\* pattern, each exactly once, and no other host.
C2_ResultIsMatchingHosts ==
    pc = "returned" =>
        /\ {key(result[k]) : k \in 1..Len(result)} = MatchingHosts
        /\ Len(result) = Cardinality(MatchingHosts)

\* C2's case, the example of the specification: 192.168.0.0/30, pattern
\* (P|p)hilips, 'found' "Philips hue bridge" at .1 and 'no http' at .2
C2_Witness ==
    /\ pc = "returned"
    /\ network = NetSpec(192, 168, 0, 0, 30)
    /\ pattern = "(P|p)hilips"
    /\ futures[1].results_tuple[2] = "found"
    /\ futures[1].results_tuple[3] = PhilipsHueBridge
    /\ futures[2].results_tuple[2] = "no http"
    /\ result = <<urlunsplit(str_ip(<<192, 168, 0, 1>>), path)>>

\* C3: the sequence survey returns is the qualified list rearranged in
\* ascending order of the numeric value of each host's address.
C3_SortedByAddressValue ==
    pc = "returned" =>
        /\ Len(result) = Len(qualified_devices)
        /\ \A u \in {qualified_devices[k] : k \in 1..Len(qualified_devices)} :
              InSeq(u, result)
        /\ \A a, b \in 1..Len(result) :
              a < b =>
                IpLess(ip_address(hostname(result[a])),
                       ip_address(hostname(result[b])))

\* C3's case, the example of the specification: 10.0.0.10, 10.0.0.2 and
\* 10.0.0.1 qualified in that order and are returned as .1, .2, .10
C3_Witness ==
    /\ pc = "returned"
    /\ qualified_devices =
          <<urlunsplit(str_ip(<<10, 0, 0, 10>>), <<>>),
            urlunsplit(str_ip(<<10, 0, 0, 2>>), <<>>),
            urlunsplit(str_ip(<<10, 0, 0, 1>>), <<>>)>>
    /\ result =
          <<urlunsplit(str_ip(<<10, 0, 0, 1>>), <<>>),
            urlunsplit(str_ip(<<10, 0, 0, 2>>), <<>>),
            urlunsplit(str_ip(<<10, 0, 0, 10>>), <<>>)>>

\* C4 (the claim as stated): a probe's failure never aborts the scan, so
\* survey ends with an exception only before any probe exists.
C4_ProbeFailureNeverAborts == pc = "raised" => futures = <<>>

\* whether survey's arguments fail before the scan: the network is no
\* network, it has more than 256 addresses, or the pattern does not compile
BadArguments ==
    LET net == ip_network(network)
    IN  \/ IF net.raised # "" THEN TRUE ELSE net.num_addresses > 256
        \/ re_compile(pattern).raised # ""

\* C5: with an unparsable network, a network of more than 256 addresses or
\* a pattern that does not compile, survey never gets past its arguments:
\* no URL is built, no fetch_page task exists (so none sleeps or requests),
\* no session is opened and nothing is returned; and with good arguments
\* survey does not fail before its probes exist.
C5_PreflightFailsBeforeAnyWork ==
    IF BadArguments
    THEN /\ pc \in {"call", "compile", "raised"}
         /\ built = <<>>
         /\ futures = <<>>
         /\ session = "none"
         /\ conns = 0
         /\ result = None
    ELSE pc = "raised" => futures # <<>>

\* C5's case: the network was good and the generator exists, the pattern
\* did not compile, survey has raised
C5_Witness ==
    /\ network = NetSpec(10, 0, 0, 8, 30)
    /\ pattern = "("
    /\ pc = "raised"
    /\ exc = "re.error"
    /\ Len(urls.pending) = 2

\* the events in which a request exceeds a timeout: conn_timeout while
\* connecting, the total timeout afterwards
TimeoutEvents == {"connect_timeout", "total_timeout"}

\* C6 (the claim as stated): a probe whose request exceeds its timeout, at
\* whatever stage, ends with the outcome 'no dev'.
C6_TimeoutIsNoDevice ==
    \A i \in Tasks : futures[i].event \in TimeoutEvents => Status(i) = "no dev"

\* the tasks that hold a connection: inside session.get or reading the body
Active == {i \in Tasks : futures[i].pc \in {"get", "text"}}

\* C7 (the claim as stated): the connections handed out never exceed the
\* limit the connector was made with.
C7_ActiveWithinLimit == conns <= limit

\* C7 (amended): the connector (limit=0, no limit) never holds a probe
\* back; the connections handed out are those of the probes inside their
\* request, one each, so at most as many as the scan has targets.
C7_OnlyTargetsBoundConnections ==
    /\ \A i \in Tasks : futures[i].pc = "sleep" => ConnectorAvailable(conns)
    /\ conns = Cardinality(Active)
    /\ conns <= Len(futures)

\* C7's case: every target of a two-host scan is connected at once
C7_Witness == Len(futures) = 2 /\ conns = 2

\* C8 (the claim as stated): a probe that has ended has one of the six
\* outcomes, and when survey ends every probe of the scan has ended.
C8_EveryProbeEndsInOneOutcome ==
    \A i \in Tasks :
        /\ futures[i].pc \in {"done", "raised"} => Status(i) \in Statuses
        /\ pc \in {"sort", "returned", "raised"} => futures[i].pc = "done"

\* C9: for a valid network of n <= 256 addresses url_generator neither
\* raises nor yields anything but, in ascending order, the n - 2 addresses
\* between the network and the broadcast address when n > 2, and all n
\* addresses when n <= 2.
C9_UrlGeneratorYieldsHosts ==
    LET net == ip_network(network)
    IN  (IF net.raised # "" THEN FALSE ELSE net.num_addresses <= 256) =>
          LET n     == net.num_addresses
              first == IF n > 2 THEN 1 ELSE 0
          IN  /\ ~(pc = "raised" /\ exc \in {"ValueError", "NotImplementedError"})
              /\ pc = "collect" =>
                    /\ Len(built) = (IF n > 2 THEN n - 2 ELSE n)
                    /\ \A k \in 1..Len(built) :
                          /\ ip_address(hostname(built[k])) =
                                AddrPlus(net.network_address, first + k - 1)
                          /\ futures[k].url = built[k]

\* C9's case: a /24 (256 addresses) has been expanded to its 254 hosts
C9_Witness ==
    /\ pc = "collect"
    /\ network.prefixlen = 24
    /\ Len(built) = 254

RECURSIVE Ascending(_)
\* the addresses of S in ascending order
Ascending(S) ==
    IF S = {} THEN <<>>
    ELSE LET m == CHOOSE x \in S : \A y \in S \ {x} : IpLess(x, y)
         IN  <<m>> \o Ascending(S \ {m})

\* C10: what survey returns is decided by the network, the path, the
\* pattern and the outcome of each host's probe alone: the URLs of the
\* matching hosts in ascending address order, whatever the jitter delays
\* and the order in which the probes completed.
C10_ResultIndependentOfOrder ==
    pc = "returned" =>
        result = [k \in 1..Cardinality(MatchingHosts) |->
                    urlunsplit(str_ip(Ascending(MatchingHosts)[k]), path)]

\* C10's case: the higher address slept less, completed and qualified
\* first, and is returned second
C10_Witness ==
    /\ pc = "returned"
    /\ Len(result) = 2
    /\ futures[2].jitter < futures[1].jitter
    /\ qualified_devices = <<futures[2].url, futures[1].url>>
    /\ result = <<futures[1].url, futures[2].url>>

\* C11 (the claim as stated): once the session of a scan is closed, no
\* probe of that scan is still pending, asleep, inside its request or
\* reading a body; and a scan that has ended has closed its session.
C11_PoolClosedAfterEveryProbe ==
    /\ session = "closed" =>
          \A i \in Tasks : futures[i].pc \in {"done", "raised"}
    /\ (pc \in {"sort", "returned", "raised"} /\ futures # <<>>) =>
          session = "closed"

\* the hosts of the network whose probe returned ('found', body)
FoundHosts ==
    {h \in NetworkHosts :
        \E i \in Tasks :
            hostname(futures[i].url) = str_ip(h) /\ Status(i) = "found"}

\* C14: with the empty pattern every host whose probe outcome is 'found'
\* qualifies, whatever its body: survey returns exactly the URLs of the
\* hosts with a 'found' outcome, in ascending address order.
C14_EmptyPatternQualifiesEveryFound ==
    (pattern = "" /\ pc = "returned") =>
        result = [k \in 1..Cardinality(FoundHosts) |->
                    urlunsplit(str_ip(Ascending(FoundHosts)[k]), path)]

\* C14's case: the empty pattern, two hosts found, one of them with an
\* empty body, both returned
C14_Witness ==
    /\ pattern = ""
    /\ pc = "returned"
    /\ Len(result) = 2
    /\ futures[1].results_tuple[3] = <<>>
    /\ futures[2].results_tuple[3] = PhilipsHueBridge

\* C16 (the claim as stated): a refused connection gives 'no http'; a
\* connection attempt that times out, or whose host is unreachable at the
\* network layer, gives 'no dev'.
C16_RefusedVersusUnreachable ==
    \A i \in Tasks :
        /\ futures[i].event = "refused" => Status(i) = "no http"
        /\ futures[i].event \in {"connect_timeout", "unreachable"} =>
              Status(i) = "no dev"

\* the keys of the dict http_devices
HttpDeviceKeys == {d[1] : d \in http_devices}

\* q begins with p
IsPrefix(p, q) == Len(p) <= Len(q) /\ SubSeq(q, 1, Len(p)) = p

\* what the collector keeps true of its two collections
CollectorInvariant ==
    /\ \A k \in 1..Len(qualified_devices) :
          qualified_devices[k] \in HttpDeviceKeys
    /\ \A a, b \in 1..Len(qualified_devices) :
          a # b => qualified_devices[a] # qualified_devices[b]
    /\ \A c, d \in http_devices : c[1] = d[1] => c = d

\* C19: in every state of asynchronous the qualified list holds only keys
\* of http_devices and no URL twice, and every step of the scan leaves
\* both collections as they were or larger: entries of http_devices stay
\* and the qualified list is only appended to.
C19_CollectorCollectionsOnlyGrow ==
    [][/\ CollectorInvariant
       /\ CollectorInvariant'
       /\ http_devices \subseteq http_devices'
       /\ IsPrefix(qualified_devices, qualified_devices')]_vars

\* C19's case: two completions consumed, both recorded in http_devices and
\* one of them qualified
C19_Witness ==
    /\ consumed = 2
    /\ Cardinality(http_devices) = 2
    /\ Len(qualified_devices) = 1

\* C20: a probe that returned its tuple on the 'found' or the 'no read'
\* path closed the response session.get gave it exactly once, a probe whose
\* session.get raised closed nothing, and no response is ever closed twice
\* or before its body was read.
C20_ResponseClosedOnce ==
    \A i \in Tasks :
        /\ futures[i].closes <= 1
        /\ futures[i].pc \in {"pending", "sleep", "get", "text"} =>
              futures[i].closes = 0
        /\ (futures[i].pc = "done" /\ Status(i) \in {"found", "no read"}) =>
              futures[i].response # "" /\ futures[i].closes = 1
        /\ futures[i].response = "" => futures[i].closes = 0

\* C20's case: one probe returned 'no read' and its sibling 'found', each
\* with its response closed once
C20_Witness ==
    \E i, j \in Tasks :
        /\ Status(i) = "no read" /\ futures[i].closes = 1
        /\ Status(j) = "found" /\ futures[j].closes = 1

\* C17: a probe sends at most one request; when the server answers with a
\* redirect, that response is the one whose body is read, the tuple is
\* 'found' with that body, and the URL is in the result of survey exactly
\* when the pattern is found in that body.
C17_RedirectNotFollowed ==
    \A i \in Tasks :
        /\ futures[i].requests <= 1
        /\ (futures[i].response = "redirect" /\ futures[i].event = "body") =>
              /\ Status(i) = "found"
              /\ futures[i].results_tuple[3] \in Bodies
              /\ pc = "returned" =>
                    (InSeq(futures[i].url, result)
                        <=> search(re_filter, futures[i].results_tuple[3]))

\* C17's case: survey returned, one redirect response matched the pattern
\* and is in the result, another did not and is not
C17_Witness ==
    /\ pc = "returned"
    /\ pattern = "(P|p)hilips"
    /\ \E i, j \in Tasks :
          /\ futures[i].response = "redirect" /\ futures[i].requests = 1
          /\ Status(i) = "found"
          /\ futures[i].results_tuple[3] = PhilipsHueBridge
          /\ InSeq(futures[i].url, result)
          /\ futures[j].response = "redirect" /\ futures[j].requests = 1
          /\ Status(j) = "found"
          /\ futures[j].results_tuple[3] = <<"o", "k">>
          /\ ~InSeq(futures[j].url, result)

\* whether the scan of this call of survey has ended, by return or by an
\* exception out of asynchronous
ScanEnded ==
    pc \in {"sort", "returned"} \/ (pc = "raised" /\ session # "none")

\* C15 (the claim as stated): there is one fetch_page task per generated
\* URL, in order, no task ever sends a second request, and when the scan
\* has ended every target was sent exactly one GET: none was skipped.
C15_EveryUrlProbedExactlyOnce ==
    /\ \A i \in Tasks : futures[i].requests <= 1
    /\ pc \in {"collect", "sort", "returned"} =>
          /\ Len(futures) = Len(built)
          /\ \A i \in Tasks : futures[i].url = built[i]
    /\ ScanEnded => \A i \in Tasks : futures[i].requests = 1

\* the part of C15 that holds: on the path where asynchronous returns
C15_ProbedOnceWhenScanReturns ==
    /\ \A i \in Tasks : futures[i].requests <= 1
    /\ pc \in {"collect", "sort", "returned"} =>
          /\ Len(futures) = Len(built)
          /\ \A i \in Tasks : futures[i].url = built[i]
    /\ pc \in {"sort", "returned"} => \A i \in Tasks : futures[i].requests = 1

\* C18 (the claim as stated): a probe that received a response and whose
\* body read then failed returns the tuple 'no read', its URL is not
\* qualified, and no exception leaves the probe to end the scan.
C18_UnreadableBodyIsNoRead ==
    \A i \in Tasks :
        (futures[i].response # "" /\ futures[i].event \in TextEvents \ {"body"})
            => /\ Status(i) = "no read"
               /\ futures[i].raised = ""
               /\ ~InSeq(futures[i].url, qualified_devices)

\* the part of C18 that holds: a body read that fails with
\* ClientPayloadError
C18_PayloadErrorIsNoRead ==
    \A i \in Tasks :
        (futures[i].response # "" /\ futures[i].event = "payload_error")
            => /\ Status(i) = "no read"
               /\ futures[i].raised = ""
               /\ ~InSeq(futures[i].url, qualified_devices)

\* C13 (the claim as stated): once the object url_generator returned has
\* been iterated to its end (line 90 does so), iterating it a second time
\* yields the same URLs in the same order as the first time.
C13_SecondIterationYieldsTheSame ==
    pc = "collect" => urls.built \o Drain(urls) = built

\* what survey's list holds for host h: httpfind keeps the URL, httpscan
\* its netloc
Entry(h) ==
    IF module = "httpscan" THEN str_ip(h) ELSE urlunsplit(str_ip(h), path)

\* a call of survey after earlier calls that returned or failed on their
\* arguments
CalledAgain ==
    /\ history # <<>>
    /\ \A k \in 1..Len(history) : history[k] \in {"returned", "preflight"}

\* the call scans and its result is that of its own arguments and probes
ScansOnItsOwn ==
    /\ (pc = "raised" /\ session = "none") => BadArguments
    /\ pc = "returned" =>
          /\ {result[k] : k \in 1..Len(result)} = {Entry(h) : h \in MatchingHosts}
          /\ Len(result) = Cardinality(MatchingHosts)

\* C12 (the claim as stated): a call of survey that follows calls which
\* returned or failed on their arguments fails before its scan only on its
\* own bad arguments, and what it returns are the hosts of its own network
\* whose own probes matched.
C12_SurveyIsRepeatable == CalledAgain => ScansOnItsOwn

\* the part of C12 that holds: httpfind's survey, whatever the earlier
\* calls did
C12_HttpfindSurveyIsRepeatable ==
    (history # <<>> /\ module = "httpfind") => ScansOnItsOwn

====
